---------------------------- MODULE Spec2Model ----------------------------
(***************************************************************************)
(* A model of the smart-chat backend: the translation pipeline of          *)
(* chat.gateway.ts, the Redis-backed room store (RedisService) and the     *)
(* Socket.IO gateway (ChatGateway).                                        *)
(*                                                                         *)
(* Strings are sequences of characters.  A character is written as a short *)
(* ASCII name: "J_k" is the compatibility jamo U+314B, "J_ng" is U+3147,   *)
(* "J_gs" is U+3133 (a jamo the romanisation table does not list), "S_an"  *)
(* is the syllable U+C548, "K_a" is the hiragana U+3042, "a" "k" "n" "g"   *)
(* are Latin letters, "1" is a digit, "!" is punctuation, " " is a space.  *)
(***************************************************************************)
EXTENDS Integers, Sequences, FiniteSets, TLC

VARIABLES
    tr,         \* the running call of translateToMultipleLanguages (pipeline specification)
    sessions,   \* ChatGateway.sessions: the connection ids that have an entry in the Map
    heap,       \* the session object of each connection: userId, nickname, roomId
    members,    \* Socket.IO: the rooms each connected socket has joined
    roomIndex,  \* Redis set chat:rooms
    roomMeta,   \* Redis strings chat:room:<id>, by id
    history,    \* Redis lists chat:room:<id>:messages, by id, index 1 is the head
    tasks,      \* the onChatSend invocations that wait for the translator
    queue,      \* the handler invocations that wait for a reply of Redis, oldest command first
    inbox,      \* the events each connection has been sent, in order
    now,        \* Date.now()
    left,       \* how many more events and calls of each kind the environment makes
    seq,        \* how many messages have been built
    last,       \* the event or call that started last
    appendLog,  \* by room, the ids of the messages pushed to its list, in push order
    translatorCalls, \* how many calls of the translator have settled
    returned    \* what the store calls made directly (store specification) returned

----------------------------------------------------------------------------
(* Bounds of the model *)

\* longest input text, in characters
MaxLen == 3
\* how many events the clients send in all (gateway specification)
MaxEvents == 2
\* how many room:join and chat:send events the clients send in all (chat specification)
ChatEvents == 4
\* the clock runs from 1 to MaxTime
MaxTime == 2
\* Math.floor(Math.random() * 1_000_000) is drawn from 0..RandRange-1
RandRange == 1
\* CHAT_HISTORY_LIMIT of the environment
HistoryLimit == 2
\* direct calls of the store (store specification): addMessage, getMessages
MaxAdds == 3
MaxGets == 2
\* largest limit argument of a direct getMessages call
MaxLimit == 3
\* events that clients send, and commands of the store that fail, in the
\* fault specification
FaultEvents == 3
MaxFaults == 1
\* events that clients send, and records that are overwritten from outside,
\* in the record specification
RecordEvents == 3
MaxCorrupts == 1

----------------------------------------------------------------------------
(* Characters and strings *)

JamoMapped == {"J_k", "J_ng"}
JamoUnmapped == {"J_gs"}
Chars == JamoMapped \cup JamoUnmapped \cup {"S_an", "K_a", "a", "1", "!", " "}

\* /\s/.test(ch)
IsWhitespace(ch) == ch = " "

\* code in U+1100..U+11FF or U+3130..U+318F
IsHangulJamo(ch) == ch \in JamoMapped \cup JamoUnmapped

\* U+AC00..U+D7AF
IsHangulSyllable(ch) == ch = "S_an"

\* U+3040..U+309F or U+30A0..U+30FF
IsKana(ch) == ch = "K_a"

\* \p{L} or \p{N}: every jamo, syllable, kana, Latin letter and digit
IsLetterOrNumber(ch) ==
    IsHangulJamo(ch) \/ IsHangulSyllable(ch) \/ IsKana(ch) \/ ch \in {"a", "k", "n", "g", "1"}

SupportedLanguage == {"ko", "ja", "en"}
targetLanguages == <<"ko", "ja", "en">>

\* every string over Chars of length lo..hi
Texts(lo, hi) == UNION {[1..n -> Chars] : n \in lo..hi}

RECURSIVE Flatten(_)
Flatten(ss) == IF ss = <<>> THEN <<>> ELSE Head(ss) \o Flatten(Tail(ss))

\* the regular expression of detectLanguage, first branch
detectLanguage(text) ==
    IF \E i \in 1..Len(text) : IsHangulJamo(text[i]) \/ IsHangulSyllable(text[i])
    THEN "ko"
    ELSE IF \E i \in 1..Len(text) : IsKana(text[i])
         THEN "ja"
         ELSE "en"

\* the loop of isHangulJamoOnly: the index of the first character that makes
\* it return false, or 0
RECURSIVE JamoOnlyFrom(_, _, _)
JamoOnlyFrom(text, i, hasAnyJamo) ==
    IF i > Len(text) THEN hasAnyJamo
    ELSE IF IsWhitespace(text[i]) THEN JamoOnlyFrom(text, i + 1, hasAnyJamo)
    ELSE IF IsHangulJamo(text[i]) THEN JamoOnlyFrom(text, i + 1, TRUE)
    ELSE IF ~IsLetterOrNumber(text[i]) THEN JamoOnlyFrom(text, i + 1, hasAnyJamo)
    ELSE FALSE

\* a slip: punctuation is not let through
isHangulJamoOnly_NoPunctuation(text) ==
    /\ \E i \in 1..Len(text) : IsHangulJamo(text[i])
    /\ \A i \in 1..Len(text) : IsHangulJamo(text[i]) \/ IsWhitespace(text[i])

isHangulJamoOnly(text) == JamoOnlyFrom(text, 1, FALSE)

\* map[ch] ?? ch
RomanOf(ch) ==
    CASE ch = "J_k" -> <<"k">>
      [] ch = "J_ng" -> <<"n", "g">>
      [] OTHER -> <<ch>>

hangulJamoToRoman(text) == Flatten([i \in 1..Len(text) |-> RomanOf(text[i])])


----------------------------------------------------------------------------
(* The translator (the `translate` package): one call either rejects or    *)
(* resolves with a value, which need not be a string and may be empty.     *)

Undefined == [type |-> "undefined", s |-> <<>>]
Str(s) == [type |-> "string", s |-> s]

\* String(translated)
ToStr(v) ==
    IF v.type = "string" THEN v.s ELSE <<"u", "n", "d", "e", "f", "i", "n", "e", "d">>

Throw == [kind |-> "throw", value |-> Undefined]
Resolve(v) == [kind |-> "resolve", value |-> v]

TranslatorOutcomes == {Throw, Resolve(Str(<<>>)), Resolve(Str(<<"a">>)), Resolve(Undefined)}

----------------------------------------------------------------------------
(* translateToMultipleLanguages, one loop iteration at a time.  A call is  *)
(* a record: the locals of the function, the loop index i into             *)
(* targetLanguages, the translator calls made so far and what each target  *)
(* got from the translator, and whether it is running, has returned or     *)
(* has thrown.                                                             *)

\* const isJamoOnly = from === 'ko' && isHangulJamoOnly(text)
IsJamoOnlyInput(text) == detectLanguage(text) = "ko" /\ isHangulJamoOnly(text)

\* const textForTranslation = from === 'ko' ? hangulJamoToRoman(text) : text
TextForTranslation(text) ==
    IF detectLanguage(text) = "ko" THEN hangulJamoToRoman(text) ELSE text

\* a slip: the source slot holds the text that is sent to the translator
TrStart_SanitizedSource(text) ==
    [text |-> text,
     from |-> detectLanguage(text),
     isJamoOnly |-> IsJamoOnlyInput(text),
     jamoRoman |-> IF IsJamoOnlyInput(text) THEN hangulJamoToRoman(text) ELSE <<>>,
     textForTranslation |-> TextForTranslation(text),
     translations |-> (detectLanguage(text) :> TextForTranslation(text)),
     i |-> 1,
     calls |-> <<>>,
     got |-> << >>,
     status |-> "running"]

\* lines 94-110: the locals, and translations[from] = text
TrStart(text) ==
    [text |-> text,
     from |-> detectLanguage(text),
     isJamoOnly |-> IsJamoOnlyInput(text),
     jamoRoman |-> IF IsJamoOnlyInput(text) THEN hangulJamoToRoman(text) ELSE <<>>,
     textForTranslation |-> TextForTranslation(text),
     translations |-> (detectLanguage(text) :> text),
     i |-> 1,
     calls |-> <<>>,
     got |-> << >>,
     status |-> "running"]

\* the loop is at `await translate(...)` for targetLanguages[t.i]
TrAtCall(t) ==
    /\ t.status = "running"
    /\ t.i <= Len(targetLanguages)
    /\ targetLanguages[t.i] # t.from
    /\ ~t.isJamoOnly

\* the iterations that make no call: lang === from, and the jamo-only branch;
\* then `return translations`
RECURSIVE TrRun(_)
TrRun(t) ==
    IF t.status # "running" \/ TrAtCall(t) THEN t
    ELSE IF t.i > Len(targetLanguages) THEN [t EXCEPT !.status = "returned"]
    ELSE IF targetLanguages[t.i] = t.from THEN TrRun([t EXCEPT !.i = @ + 1])
    ELSE TrRun([t EXCEPT !.translations = (targetLanguages[t.i] :> t.jamoRoman) @@ @,
                         !.i = @ + 1])

\* a slip: the function returns as soon as one call has settled
TrResume_FirstOnly(t, outcome) ==
    [t EXCEPT !.translations = (targetLanguages[t.i] :> ToStr(outcome.value)) @@ @,
              !.i = @ + 1,
              !.status = "returned"]

\* a slip: the fallback is the text that was sent to the translator
CallResult_SanitizedFallback(t, outcome) ==
    IF outcome.kind = "throw" THEN t.textForTranslation ELSE ToStr(outcome.value)

\* what the try/catch around the call stores for an outcome of the translator
CallResult(t, outcome) ==
    IF outcome.kind = "throw" THEN t.text ELSE ToStr(outcome.value)

\* the call for targetLanguages[t.i] settles with `outcome`; the loop goes on
\* to the next call or to the return
TrResume(t, outcome) ==
    TrRun([t EXCEPT !.translations = (targetLanguages[t.i] :> CallResult(t, outcome)) @@ @,
                    !.calls = Append(@, [text |-> t.textForTranslation,
                                         from |-> t.from,
                                         to |-> targetLanguages[t.i]]),
                    !.got = @ @@ (targetLanguages[t.i] :> outcome),
                    !.i = @ + 1])

\* no call of the function is running
NoCall ==
    [text |-> <<>>, from |-> "en", isJamoOnly |-> FALSE, jamoRoman |-> <<>>,
     textForTranslation |-> <<>>, translations |-> << >>, i |-> 0, calls |-> <<>>,
     got |-> << >>, status |-> "idle"]

----------------------------------------------------------------------------
(* Values, payloads and identifiers *)

Conns == {"c1", "c2"}

\* String.prototype.trim
RECURSIVE TrimLeft(_)
TrimLeft(s) == IF s # <<>> /\ IsWhitespace(Head(s)) THEN TrimLeft(Tail(s)) ELSE s

RECURSIVE TrimRight(_)
TrimRight(s) ==
    IF s # <<>> /\ IsWhitespace(s[Len(s)]) THEN TrimRight(SubSeq(s, 1, Len(s) - 1)) ELSE s

Trim(s) == TrimRight(TrimLeft(s))

\* typeof v === 'string' ? v.trim() : ''
StringField(v) == IF v.type = "string" THEN Trim(v.s) ELSE <<>>

Digit(n) == CASE n = 0 -> "0" [] n = 1 -> "1" [] n = 2 -> "2" [] n = 3 -> "3" [] OTHER -> "9"

\* `${Date.now()}-${Math.floor(Math.random() * 1_000_000)}`
RoomIdString(t, r) == <<Digit(t), "-", Digit(r)>>

\* a room id no room:create produces
GhostRoom == <<"z">>

RoomIds == {RoomIdString(t, r) : t \in 1..MaxTime, r \in 0..(RandRange - 1)} \cup {GhostRoom}

\* session.roomId === null
NoRoom == <<>>

\* what clients put in body.text, body.roomId and body.name
SendBodies == {Undefined, Str(<<" ">>), Str(<<"J_k">>), Str(<<" ", "a">>)}
JoinBodies == {Undefined, Str(<<" ">>), Str(<<" ">> \o GhostRoom), Str(RoomIdString(1, 0) \o <<" ">>)}
CreateBodies == {Undefined, Str(<<" ">>), Str(<<"a", " ">>)}

\* the translator outcomes the gateway specification draws from
GatewayOutcomes == {Throw, Resolve(Str(<<"a">>))}

\* socket.handshake.auth of each connection
AuthOf(c) ==
    IF c = "c1" THEN [userId |-> Str(<<" ", "k">>), nickname |-> Str(<<"n">>)]
    ELSE [userId |-> Undefined, nickname |-> Str(<<" ">>)]

\* client.id as a string
ClientId(c) == <<c>>

Min(a, b) == IF a < b THEN a ELSE b
Max(a, b) == IF a > b THEN a ELSE b

----------------------------------------------------------------------------
(* Redis commands and RedisService *)

\* JSON.stringify and JSON.parse of a record the service stores
Stringify(v) == [json |-> v]
Parse(raw) == raw.json

\* a stored string that is no JSON text, and whether JSON.parse returns
Garbage == [garbage |-> TRUE]
Parses(raw) == "json" \in DOMAIN raw

\* the loop of getMessages: parsed.push(JSON.parse(raw)) in a try whose
\* catch goes on to the next entry
ParsedEntries(rawList) ==
    [i \in 1..Len(SelectSeq(rawList, Parses)) |-> Parse(SelectSeq(rawList, Parses)[i])]

\* a slip: RPUSH for LPUSH
LPushOp_Tail(list, raw) == Append(list, raw)

LPushOp(list, raw) == <<raw>> \o list

\* LTRIM key start stop and LRANGE key start stop, 0 <= start, 0 <= stop
LTrimOp(list, start, stop) == SubSeq(list, start + 1, Min(stop + 1, Len(list)))
LRangeOp(list, start, stop) == SubSeq(list, start + 1, Min(stop + 1, Len(list)))

DefaultHistoryLimit == 200
DefaultLimit == 50

\* const limit = Number(process.env.CHAT_HISTORY_LIMIT) || 200
historyLimit == IF HistoryLimit = 0 THEN DefaultHistoryLimit ELSE HistoryLimit

\* the lTrim of addMessage
TrimHistory(list) == LTrimOp(list, 0, Max(0, historyLimit - 1))

Reverse(s) == [i \in 1..Len(s) |-> s[Len(s) + 1 - i]]

\* a slip: the entries are returned in the order of the list, newest first
getMessages_NoReverse(list, limit) ==
    ParsedEntries(LRangeOp(list, 0, Max(0, limit - 1)))

\* getMessages: lRange, parse each entry, reverse
getMessages(list, limit) ==
    Reverse(ParsedEntries(LRangeOp(list, 0, Max(0, limit - 1))))

\* rooms.sort((a, b) => a.createdAt - b.createdAt): a stable insertion
RECURSIVE InsertRoom(_, _)
InsertRoom(sorted, room) ==
    IF sorted = <<>> THEN <<room>>
    ELSE IF sorted[Len(sorted)].createdAt <= room.createdAt THEN Append(sorted, room)
    ELSE Append(InsertRoom(SubSeq(sorted, 1, Len(sorted) - 1), room), sorted[Len(sorted)])

\* a slip: the rooms are returned as they were read
SortRooms_AsRead(rooms) == rooms

RECURSIVE SortRooms(_)
SortRooms(rooms) ==
    IF rooms = <<>> THEN <<>>
    ELSE InsertRoom(SortRooms(SubSeq(rooms, 1, Len(rooms) - 1)), rooms[Len(rooms)])

\* every order in which sMembers may yield the members of a set
Orders(S) == {o \in [1..Cardinality(S) -> S] : \A i, j \in DOMAIN o : i # j => o[i] # o[j]}

----------------------------------------------------------------------------
(* State *)

vars == <<tr, sessions, heap, members, roomIndex, roomMeta, history, tasks, queue, inbox,
          now, left, seq, last, appendLog, translatorCalls, returned>>

NoEvent == [kind |-> "none"]

StateInit ==
    /\ sessions = {}
    /\ heap = << >>
    /\ members = << >>
    /\ roomIndex = {}
    /\ roomMeta = << >>
    /\ history = [id \in RoomIds |-> <<>>]
    /\ tasks = {}
    /\ queue = <<>>
    /\ inbox = [c \in Conns |-> <<>>]
    /\ now = 1
    /\ seq = 0
    /\ last = NoEvent
    /\ appendLog = [id \in RoomIds |-> <<>>]
    /\ translatorCalls = 0
    /\ returned = NoEvent

\* the sockets of the namespace that are connected
Connected == DOMAIN members

\* client.emit, server.to(room).emit and server.emit: the event is appended
\* to the inbox of every connected socket among `targets`
Deliver(targets, ev) ==
    inbox' = [c \in Conns |->
                IF c \in targets /\ c \in Connected THEN Append(inbox[c], ev) ELSE inbox[c]]

InRoom(roomId) == {c \in Connected : roomId \in members[c]}

\* a handler can be called for the socket c: c is connected or, where the
\* specification lets handlers be called for sockets that have gone, was
Callable(c) == c \in Connected \/ (left.late /\ c \in DOMAIN heap)

\* RedisService keeps one client: its commands are executed, and their
\* replies handled, in the order in which they were issued.  A handler that
\* issues a command waits at the tail of the queue; the reply of the oldest
\* command resumes the handler at the head.
Issue(t) == queue' = Append(queue, t)
AtHead(pc) == queue # <<>> /\ Head(queue).pc = pc
ReplyThenIssue(t) == queue' = Append(Tail(queue), t)
ReplyThenEnd == queue' = Tail(queue)

\* the clock never runs backwards
Tick ==
    /\ now < MaxTime
    /\ now' = now + 1
    /\ last' = NoEvent
    /\ UNCHANGED <<tr, sessions, heap, members, roomIndex, roomMeta, history, tasks, queue,
                   inbox, left, seq, appendLog, translatorCalls, returned>>

----------------------------------------------------------------------------
(* ChatGateway: the part of each handler that runs when its event arrives *)

UserIdOf(c) ==
    IF StringField(AuthOf(c).userId) # <<>> THEN StringField(AuthOf(c).userId) ELSE ClientId(c)

NicknameOf(c) ==
    IF StringField(AuthOf(c).nickname) # <<>> THEN StringField(AuthOf(c).nickname)
    ELSE <<"a", "n", "o", "n", "y", "m", "o", "u", "s">>

\* handleConnection up to `await this.redisService.listRooms()`
HandleConnection(c) ==
    /\ c \in left.conns
    /\ sessions' = sessions \cup {c}
    /\ heap' = (c :> [userId |-> UserIdOf(c), nickname |-> NicknameOf(c), roomId |-> NoRoom])
                 @@ heap
    /\ members' = (c :> {}) @@ members
    /\ inbox' = [inbox EXCEPT ![c] = Append(@, [ev |-> "connected", id |-> ClientId(c),
                                                userId |-> UserIdOf(c),
                                                nickname |-> NicknameOf(c)])]
    /\ Issue([kind |-> "connect", conn |-> c, pc |-> "sMembers"])
    /\ left' = [left EXCEPT !.conns = @ \ {c}]
    /\ UNCHANGED seq
    /\ last' = [kind |-> "connect", conn |-> c]
    /\ UNCHANGED <<tr, roomIndex, roomMeta, history, tasks, now, appendLog, translatorCalls,
                   returned>>

\* a slip: the session is kept
SessionsWithout_Kept(c) == sessions

\* a slip: this.sessions.clear()
SessionsWithout_Clear(c) == {}

\* this.sessions.delete(client.id)
SessionsWithout(c) == sessions \ {c}

\* the transport drops the socket from its rooms, then handleDisconnect
HandleDisconnect(c) ==
    /\ Callable(c)
    /\ sessions' = SessionsWithout(c)
    /\ members' = [d \in Connected \ {c} |-> members[d]]
    /\ last' = [kind |-> "disconnect", conn |-> c]
    /\ UNCHANGED <<tr, heap, roomIndex, roomMeta, history, tasks, queue, inbox, now, left, seq,
                   appendLog, translatorCalls, returned>>

\* onPing
OnPing(c) ==
    /\ c \in Connected
    /\ left.events > 0 /\ left.reads > 0
    /\ left' = [left EXCEPT !.events = @ - 1, !.reads = @ - 1]
    /\ Deliver({c}, [ev |-> "pong", at |-> now])
    /\ UNCHANGED seq
    /\ last' = [kind |-> "ping", conn |-> c]
    /\ UNCHANGED <<tr, sessions, heap, members, roomIndex, roomMeta, history, tasks, queue,
                   now, appendLog, translatorCalls, returned>>

\* onRoomList up to the await
OnRoomList(c) ==
    /\ c \in Connected
    /\ left.events > 0 /\ left.reads > 0
    /\ left' = [left EXCEPT !.events = @ - 1, !.reads = @ - 1]
    /\ Issue([kind |-> "room:list", conn |-> c, pc |-> "sMembers"])
    /\ UNCHANGED seq
    /\ last' = [kind |-> "room:list", conn |-> c]
    /\ UNCHANGED <<tr, sessions, heap, members, roomIndex, roomMeta, history, tasks, inbox,
                   now, appendLog, translatorCalls, returned>>

\* onRoomCreate up to the first await of createRoom: the two early returns,
\* the id, and the room record with createdAt read from the clock after the id
OnRoomCreate(c, body) ==
    /\ Callable(c)
    /\ left.events > 0 /\ left.creates > 0
    /\ left' = [left EXCEPT !.events = @ - 1, !.creates = @ - 1]
    /\ UNCHANGED seq
    /\ last' = [kind |-> "room:create", conn |-> c, body |-> body]
    /\ IF c \notin sessions \/ StringField(body) = <<>>
       THEN UNCHANGED <<queue, now>>
       ELSE \E r \in 0..(RandRange - 1), createdAt \in {now, Min(now + 1, MaxTime)} :
            /\ now' = createdAt
            /\ Issue([kind |-> "room:create", conn |-> c, pc |-> "sAdd",
                      room |-> [id |-> RoomIdString(now, r),
                                name |-> StringField(body),
                                createdAt |-> createdAt,
                                createdByUserId |-> heap[c].userId,
                                createdByNickname |-> heap[c].nickname]])
    /\ UNCHANGED <<tr, sessions, heap, members, roomIndex, roomMeta, history, tasks, inbox,
                   appendLog, translatorCalls, returned>>

\* a slip: the former room is not left
RoomsAfterJoin_NoLeave(rooms, former, roomId) == rooms \cup {roomId}

\* lines 244-248: client.leave(session.roomId) when the session holds another
\* room, then client.join(roomId)
RoomsAfterJoin(rooms, former, roomId) ==
    (IF former # NoRoom /\ former # roomId THEN rooms \ {former} ELSE rooms) \cup {roomId}

\* a slip: an empty room id is let through
JoinIgnored_SessionOnly(c, roomId) == c \notin sessions

\* the two early returns of onRoomJoin: `if (!session) return` and
\* `if (!roomId) return`
JoinIgnored(c, roomId) == c \notin sessions \/ roomId = <<>>

\* onRoomJoin up to `await this.redisService.listRooms()`: the two early
\* returns, client.leave of the former room, client.join, session.roomId
OnRoomJoin(c, body) ==
    /\ Callable(c)
    /\ left.events > 0 /\ left.joins > 0
    /\ left' = [left EXCEPT !.events = @ - 1, !.joins = @ - 1]
    /\ UNCHANGED seq
    /\ last' = [kind |-> "room:join", conn |-> c, body |-> body]
    /\ IF JoinIgnored(c, StringField(body))
       THEN UNCHANGED <<members, heap, queue>>
       ELSE /\ members' = [members EXCEPT ![c] =
                                RoomsAfterJoin(@, heap[c].roomId, StringField(body))]
            /\ heap' = [heap EXCEPT ![c].roomId = StringField(body)]
            /\ Issue([kind |-> "room:join", conn |-> c, pc |-> "sMembers",
                      roomId |-> StringField(body)])
    /\ UNCHANGED <<tr, sessions, roomIndex, roomMeta, history, tasks, inbox, now, appendLog,
                   translatorCalls, returned>>

\* lines 274-281: the message object and the arguments of addMessage, from
\* the session as it is now; id numbers the chat:send events handled and is
\* no field of the message
MessageTask(id, c, translations) ==
    [kind |-> "chat:send", conn |-> c, pc |-> "lPush",
     key |-> heap[c].roomId,
     message |-> [id |-> id,
                  roomId |-> heap[c].roomId,
                  from |-> [userId |-> heap[c].userId, nickname |-> heap[c].nickname],
                  at |-> now,
                  translations |-> translations]]

\* a slip: a session without a room is let through
SendIgnored_TextOnly(c, text) == text = <<>> \/ c \notin sessions

\* the two early returns of onChatSend: `if (!text) return` and
\* `if (!session || !session.roomId) return`
SendIgnored(c, text) == text = <<>> \/ c \notin sessions \/ heap[c].roomId = NoRoom

\* onChatSend up to its first await that leaves the event loop: the two
\* early returns, then translateToMultipleLanguages up to its first call of
\* the translator or, when it makes none, on to the lPush of addMessage
OnChatSend(c, body) ==
    /\ Callable(c)
    /\ left.events > 0 /\ left.sends > 0
    /\ left' = [left EXCEPT !.events = @ - 1, !.sends = @ - 1]
    /\ last' = [kind |-> "chat:send", conn |-> c, body |-> body]
    /\ IF SendIgnored(c, StringField(body))
       THEN UNCHANGED <<tasks, queue, seq>>
       ELSE /\ seq' = seq + 1
            /\ IF TrRun(TrStart(StringField(body))).status = "returned"
                  THEN /\ Issue(MessageTask(seq + 1, c,
                                         TrRun(TrStart(StringField(body))).translations))
                    /\ UNCHANGED tasks
               ELSE /\ tasks' = tasks \cup
                         {[id |-> seq + 1, conn |-> c,
                           tr |-> TrRun(TrStart(StringField(body)))]}
                    /\ UNCHANGED queue
    /\ UNCHANGED <<tr, sessions, heap, members, roomIndex, roomMeta, history, inbox, now,
                   appendLog, translatorCalls, returned>>

----------------------------------------------------------------------------
(* The continuations: what runs when an awaited call settles *)

\* a call of the translator settles in translateToMultipleLanguages; after
\* the last one onChatSend builds the message and calls addMessage
TranslateSettle(t, outcome) ==
    /\ translatorCalls' = translatorCalls + 1
    /\ last' = NoEvent
    /\ IF TrResume(t.tr, outcome).status = "returned"
       THEN /\ tasks' = tasks \ {t}
            /\ Issue(MessageTask(t.id, t.conn, TrResume(t.tr, outcome).translations))
       ELSE /\ tasks' = (tasks \ {t}) \cup {[t EXCEPT !.tr = TrResume(t.tr, outcome)]}
            /\ UNCHANGED queue
    /\ UNCHANGED <<tr, sessions, heap, members, roomIndex, roomMeta, history, inbox, now,
                   left, seq, appendLog, returned>>

\* addMessage: await client.lPush(key, JSON.stringify(message)), then the
\* lTrim is issued
LPush ==
    /\ AtHead("lPush")
    /\ history' = [history EXCEPT ![Head(queue).key] =
                     LPushOp(@, Stringify(Head(queue).message))]
    /\ appendLog' = [appendLog EXCEPT ![Head(queue).key] = Append(@, Head(queue).message.id)]
    /\ ReplyThenIssue([Head(queue) EXCEPT !.pc = "lTrim"])
    /\ last' = NoEvent
    /\ UNCHANGED <<tr, sessions, heap, members, roomIndex, roomMeta, tasks, inbox, now, left, seq,
                   translatorCalls, returned>>

\* the room line 283 emits to: session.roomId as it is when addMessage has returned
EmitRoom(t) == heap[t.conn].roomId

\* addMessage: await client.lTrim(key, 0, Math.max(0, limit - 1)); addMessage
\* returns, and onChatSend emits: this.server.to(session.roomId).emit(...)
LTrim ==
    /\ AtHead("lTrim")
    /\ history' = [history EXCEPT ![Head(queue).key] = TrimHistory(@)]
    /\ IF Head(queue).kind = "chat:send"
       THEN Deliver(InRoom(EmitRoom(Head(queue))),
                    [ev |-> "chat:message", to |-> EmitRoom(Head(queue)),
                     message |-> Head(queue).message])
       ELSE UNCHANGED inbox
    /\ ReplyThenEnd
    /\ last' = NoEvent
    /\ UNCHANGED <<tr, sessions, heap, members, roomIndex, roomMeta, tasks, now, left, seq,
                   appendLog, translatorCalls, returned>>

\* createRoom: await client.sAdd(this.roomsKey(), room.id), then the set
\* is issued
SAdd ==
    /\ AtHead("sAdd")
    /\ roomIndex' = roomIndex \cup {Head(queue).room.id}
    /\ ReplyThenIssue([Head(queue) EXCEPT !.pc = "set"])
    /\ last' = NoEvent
    /\ UNCHANGED <<tr, sessions, heap, members, roomMeta, history, tasks, inbox, now, left, seq,
                   appendLog, translatorCalls, returned>>

\* createRoom: await client.set(this.roomKey(room.id), JSON.stringify(room));
\* createRoom returns, onRoomCreate emits room:create:result and calls listRooms
SetRoom ==
    /\ AtHead("set")
    /\ roomMeta' = (Head(queue).room.id :> Stringify(Head(queue).room)) @@ roomMeta
    /\ Deliver({Head(queue).conn}, [ev |-> "room:create:result", room |-> Head(queue).room])
    /\ ReplyThenIssue([Head(queue) EXCEPT !.pc = "sMembers"])
    /\ last' = NoEvent
    /\ UNCHANGED <<tr, sessions, heap, members, roomIndex, history, tasks, now, left, seq,
                   appendLog, translatorCalls, returned>>

Null == [null |-> TRUE]

\* a slip: a room that is not listed is made up from its id
FindRoom_MadeUp(rooms, roomId) == [id |-> roomId]

\* rooms.find((r) => r.id === roomId) ?? null
FindRoom(rooms, roomId) ==
    IF \E i \in 1..Len(rooms) : rooms[i].id = roomId
    THEN rooms[CHOOSE i \in 1..Len(rooms) :
                 /\ rooms[i].id = roomId
                 /\ \A j \in 1..(i - 1) : rooms[j].id # roomId]
    ELSE Null

\* listRooms has read every record: it sorts and returns, and the handler
\* that awaited it emits and ends, or (onRoomJoin) calls getMessages
AfterListRooms(t, rooms) ==
    CASE t.kind = "connect" ->
           /\ Deliver({t.conn}, [ev |-> "room:list:update", rooms |-> SortRooms(rooms)])
           /\ ReplyThenEnd
      [] t.kind = "room:list" ->
           /\ Deliver({t.conn}, [ev |-> "room:list:result", rooms |-> SortRooms(rooms)])
           /\ ReplyThenEnd
      [] t.kind = "room:create" ->
           /\ Deliver(Connected, [ev |-> "room:list:update", rooms |-> SortRooms(rooms)])
           /\ ReplyThenEnd
      [] t.kind = "room:join" ->
           /\ UNCHANGED inbox
           /\ ReplyThenIssue([kind |-> t.kind, conn |-> t.conn, pc |-> "lRange",
                              roomId |-> t.roomId, limit |-> DefaultLimit,
                              room |-> FindRoom(SortRooms(rooms), t.roomId)])

\* the handler t inside the loop of listRooms, with the ids still to read
\* and the rooms read so far
InListRooms(t, ids, rooms) ==
    [x \in (DOMAIN t \cup {"ids", "rooms"}) |->
        IF x = "pc" THEN "get" ELSE IF x = "ids" THEN ids ELSE IF x = "rooms" THEN rooms
        ELSE t[x]]

\* listRooms: await client.sMembers(this.roomsKey()), in any order
SMembers ==
    /\ AtHead("sMembers")
    /\ \E ids \in Orders(roomIndex) :
         IF ids = <<>> THEN AfterListRooms(Head(queue), <<>>)
         ELSE /\ ReplyThenIssue(InListRooms(Head(queue), ids, <<>>))
              /\ UNCHANGED inbox
    /\ last' = NoEvent
    /\ UNCHANGED <<tr, sessions, heap, members, roomIndex, roomMeta, history, tasks, now,
                   left, seq, appendLog, translatorCalls, returned>>

\* a slip: a record that is missing or no JSON ends the loop with nothing
RoomsWith_AllOrNothing(rooms, id) ==
    IF id \in DOMAIN roomMeta /\ Parses(roomMeta[id])
    THEN Append(rooms, Parse(roomMeta[id]))
    ELSE <<>>

\* the rooms array after the iteration of the loop of listRooms for `id`:
\* `if (!raw) continue`, and JSON.parse in a try whose catch continues
RoomsWith(rooms, id) ==
    IF id \in DOMAIN roomMeta /\ Parses(roomMeta[id])
    THEN Append(rooms, Parse(roomMeta[id]))
    ELSE rooms

\* listRooms: await client.get(this.roomKey(id)) for the next id
GetRoom ==
    /\ AtHead("get")
    /\ IF Len(Head(queue).ids) = 1
       THEN AfterListRooms(Head(queue), RoomsWith(Head(queue).rooms, Head(Head(queue).ids)))
       ELSE /\ ReplyThenIssue([Head(queue) EXCEPT
                                 !.ids = Tail(@),
                                 !.rooms = RoomsWith(@, Head(Head(queue).ids))])
            /\ UNCHANGED inbox
    /\ last' = NoEvent
    /\ UNCHANGED <<tr, sessions, heap, members, roomIndex, roomMeta, history, tasks, now,
                   left, seq, appendLog, translatorCalls, returned>>

\* getMessages: await client.lRange(key, 0, Math.max(0, limit - 1)); on its
\* return onRoomJoin emits room:join:result to the caller
LRange ==
    /\ AtHead("lRange")
    /\ IF Head(queue).kind = "room:join"
       THEN /\ Deliver({Head(queue).conn},
                       [ev |-> "room:join:result", room |-> Head(queue).room,
                        roomId |-> Head(queue).roomId,
                        messages |-> getMessages(history[Head(queue).roomId],
                                                 Head(queue).limit)])
            /\ UNCHANGED returned
       ELSE /\ returned' = [kind |-> "getMessages", roomId |-> Head(queue).roomId,
                            limit |-> Head(queue).limit,
                            messages |-> getMessages(history[Head(queue).roomId],
                                                     Head(queue).limit),
                            log |-> appendLog[Head(queue).roomId],
                            sequential |-> Head(queue).sequential]
            /\ UNCHANGED inbox
    /\ ReplyThenEnd
    /\ last' = NoEvent
    /\ UNCHANGED <<tr, sessions, heap, members, roomIndex, roomMeta, history, tasks, now,
                   left, seq, appendLog, translatorCalls>>

\* the oldest command is rejected (the connection to the store is lost, the
\* store answers with an error): the server has executed it or has not, the
\* awaited promise rejects, and so does the handler, which emits nothing;
\* only handleConnection catches the rejection, and logs it
Reject ==
    /\ queue # <<>>
    /\ left.faults > 0
    /\ left' = [left EXCEPT !.faults = @ - 1]
    /\ \E executed \in BOOLEAN :
         /\ IF executed /\ Head(queue).pc = "lPush"
            THEN /\ history' = [history EXCEPT ![Head(queue).key] =
                                  LPushOp(@, Stringify(Head(queue).message))]
                 /\ appendLog' = [appendLog EXCEPT ![Head(queue).key] =
                                    Append(@, Head(queue).message.id)]
            ELSE IF executed /\ Head(queue).pc = "lTrim"
            THEN /\ history' = [history EXCEPT ![Head(queue).key] = TrimHistory(@)]
                 /\ UNCHANGED appendLog
            ELSE UNCHANGED <<history, appendLog>>
         /\ roomIndex' = IF executed /\ Head(queue).pc = "sAdd"
                         THEN roomIndex \cup {Head(queue).room.id} ELSE roomIndex
         /\ roomMeta' = IF executed /\ Head(queue).pc = "set"
                        THEN (Head(queue).room.id :> Stringify(Head(queue).room)) @@ roomMeta
                        ELSE roomMeta
    /\ ReplyThenEnd
    /\ last' = NoEvent
    /\ UNCHANGED <<tr, sessions, heap, members, tasks, inbox, now, seq, translatorCalls,
                   returned>>

\* another client of the store overwrites the record of a room, or an entry
\* of a list of messages, with a string that is no JSON text
Corrupt ==
    /\ left.corrupts > 0
    /\ left' = [left EXCEPT !.corrupts = @ - 1]
    /\ \/ /\ \E id \in DOMAIN roomMeta : roomMeta' = [roomMeta EXCEPT ![id] = Garbage]
          /\ UNCHANGED history
       \/ /\ \E id \in RoomIds : \E k \in 1..Len(history[id]) :
                history' = [history EXCEPT ![id][k] = Garbage]
          /\ UNCHANGED roomMeta
    /\ last' = NoEvent
    /\ UNCHANGED <<tr, sessions, heap, members, roomIndex, tasks, queue, inbox, now, seq,
                   appendLog, translatorCalls, returned>>

----------------------------------------------------------------------------
(* The store called directly: addMessage and getMessages of RedisService,  *)
(* from any number of callers at once                                      *)

StoreRooms == {GhostRoom, RoomIdString(1, 0)}

\* addMessage(roomId, message) up to its lPush
CallAddMessage(roomId) ==
    /\ left.adds > 0
    /\ left' = [left EXCEPT !.adds = @ - 1]
    /\ seq' = seq + 1
    /\ Issue([kind |-> "addMessage", pc |-> "lPush", key |-> roomId,
              message |-> [id |-> seq + 1, roomId |-> roomId,
                           from |-> [userId |-> <<"k">>, nickname |-> <<"n">>],
                           at |-> now,
                           translations |-> TrRun(TrStart(<<"J_k">>)).translations]])
    /\ last' = [kind |-> "addMessage", roomId |-> roomId]
    /\ UNCHANGED <<tr, sessions, heap, members, roomIndex, roomMeta, history, tasks, inbox,
                   now, appendLog, translatorCalls, returned>>

\* getMessages(roomId, limit) up to its lRange; sequential: no addMessage
\* is running when it is called
CallGetMessages(roomId, limit) ==
    /\ left.gets > 0
    /\ left' = [left EXCEPT !.gets = @ - 1]
    /\ Issue([kind |-> "getMessages", pc |-> "lRange", roomId |-> roomId, limit |-> limit,
              sequential |-> (queue = <<>>)])
    /\ last' = [kind |-> "getMessages", roomId |-> roomId, limit |-> limit]
    /\ UNCHANGED <<tr, sessions, heap, members, roomIndex, roomMeta, history, tasks, inbox,
                   now, seq, appendLog, translatorCalls, returned>>

NoBudget ==
    [conns |-> {}, events |-> 0, sends |-> 0, joins |-> 0, creates |-> 0, reads |-> 0,
     adds |-> 0, gets |-> 0, late |-> FALSE, faults |-> 0, corrupts |-> 0]

StoreInit ==
    /\ tr = NoCall
    /\ StateInit
    /\ left = [NoBudget EXCEPT !.adds = MaxAdds, !.gets = MaxGets]

StoreNext ==
    \/ \E roomId \in StoreRooms : CallAddMessage(roomId)
    \/ \E roomId \in StoreRooms, limit \in 0..MaxLimit : CallGetMessages(roomId, limit)
    \/ LPush
    \/ LTrim
    \/ LRange

StoreSpec == StoreInit /\ [][StoreNext]_vars

----------------------------------------------------------------------------
(* The gateway specification: clients connect, send events of every kind   *)
(* and disconnect                                                          *)

Next ==
    \/ Tick
    \/ \E c \in Conns : HandleConnection(c)
    \/ \E c \in Conns : HandleDisconnect(c)
    \/ \E c \in Conns : OnPing(c)
    \/ \E c \in Conns : OnRoomList(c)
    \/ \E c \in Conns, body \in CreateBodies : OnRoomCreate(c, body)
    \/ \E c \in Conns, body \in JoinBodies : OnRoomJoin(c, body)
    \/ \E c \in Conns, body \in SendBodies : OnChatSend(c, body)
    \/ \E t \in tasks, outcome \in GatewayOutcomes : TranslateSettle(t, outcome)
    \/ LPush
    \/ LTrim
    \/ SAdd
    \/ SetRoom
    \/ SMembers
    \/ GetRoom
    \/ LRange

Init ==
    /\ tr = NoCall
    /\ StateInit
    /\ left = [NoBudget EXCEPT !.conns = Conns, !.events = MaxEvents, !.sends = MaxEvents,
                               !.joins = MaxEvents, !.creates = MaxEvents,
                               !.reads = MaxEvents]

Spec == Init /\ [][Next]_vars

----------------------------------------------------------------------------
(* The chat specification: clients connect, join rooms, send messages and  *)
(* disconnect                                                              *)

\* the well-formed bodies among JoinBodies and SendBodies
ChatJoinBodies == {body \in JoinBodies : StringField(body) # <<>>}
ChatSendBodies == {body \in SendBodies : StringField(body) # <<>>}

ChatInit ==
    /\ tr = NoCall
    /\ StateInit
    /\ left = [NoBudget EXCEPT !.conns = Conns, !.events = ChatEvents,
                               !.joins = ChatEvents, !.sends = ChatEvents]

ChatNext ==
    \/ \E c \in Conns : HandleConnection(c)
    \/ \E c \in Conns : HandleDisconnect(c)
    \/ \E c \in Conns, body \in ChatJoinBodies : OnRoomJoin(c, body)
    \/ \E c \in Conns, body \in ChatSendBodies : OnChatSend(c, body)
    \/ \E t \in tasks : TranslateSettle(t, Resolve(Str(<<"a">>)))
    \/ LPush
    \/ LTrim
    \/ SMembers
    \/ LRange

ChatSpec == ChatInit /\ [][ChatNext]_vars

----------------------------------------------------------------------------
(* The late specification: as the gateway specification, and the handlers  *)
(* of room:create, room:join, chat:send and of the disconnect are called   *)
(* for sockets that have disconnected as well                              *)

LateInit ==
    /\ tr = NoCall
    /\ StateInit
    /\ left = [NoBudget EXCEPT !.conns = Conns, !.events = MaxEvents, !.sends = MaxEvents,
                               !.joins = MaxEvents, !.creates = MaxEvents, !.late = TRUE]

LateNext ==
    \/ \E c \in Conns : HandleConnection(c)
    \/ \E c \in Conns : HandleDisconnect(c)
    \/ \E c \in Conns, body \in CreateBodies : OnRoomCreate(c, body)
    \/ \E c \in Conns, body \in JoinBodies : OnRoomJoin(c, body)
    \/ \E c \in Conns, body \in SendBodies : OnChatSend(c, body)
    \/ \E t \in tasks, outcome \in GatewayOutcomes : TranslateSettle(t, outcome)
    \/ LPush
    \/ LTrim
    \/ SAdd
    \/ SetRoom
    \/ SMembers
    \/ GetRoom
    \/ LRange

LateSpec == LateInit /\ [][LateNext]_vars

----------------------------------------------------------------------------
(* The fault specification: clients connect, join rooms and send messages, *)
(* the translator settles in every way, and commands of the store fail     *)

FaultInit ==
    /\ tr = NoCall
    /\ StateInit
    /\ left = [NoBudget EXCEPT !.conns = Conns, !.events = FaultEvents,
                               !.joins = FaultEvents, !.sends = FaultEvents,
                               !.faults = MaxFaults]

FaultNext ==
    \/ \E c \in Conns : HandleConnection(c)
    \/ \E c \in Conns : HandleDisconnect(c)
    \/ \E c \in Conns, body \in ChatJoinBodies : OnRoomJoin(c, body)
    \/ \E c \in Conns, body \in ChatSendBodies : OnChatSend(c, body)
    \/ \E t \in tasks, outcome \in TranslatorOutcomes : TranslateSettle(t, outcome)
    \/ LPush
    \/ LTrim
    \/ SMembers
    \/ LRange
    \/ Reject

FaultSpec == FaultInit /\ [][FaultNext]_vars

----------------------------------------------------------------------------
(* The record specification: clients create, list and join rooms and send  *)
(* messages that need no translator, commands of the store fail, and       *)
(* records of the store are overwritten from outside                       *)

RecordCreateBodies == {body \in CreateBodies : StringField(body) # <<>>}
RecordSendBodies == {body \in SendBodies : IsJamoOnlyInput(StringField(body))}

RecordInit ==
    /\ tr = NoCall
    /\ StateInit
    /\ left = [NoBudget EXCEPT !.conns = {"c1"}, !.events = RecordEvents,
                               !.reads = RecordEvents, !.creates = RecordEvents,
                               !.joins = RecordEvents, !.sends = RecordEvents,
                               !.faults = MaxFaults, !.corrupts = MaxCorrupts]

RecordNext ==
    \/ Tick
    \/ \E c \in Conns : HandleConnection(c)
    \/ \E c \in Conns : OnRoomList(c)
    \/ \E c \in Conns, body \in RecordCreateBodies : OnRoomCreate(c, body)
    \/ \E c \in Conns, body \in ChatJoinBodies : OnRoomJoin(c, body)
    \/ \E c \in Conns, body \in RecordSendBodies : OnChatSend(c, body)
    \/ LPush
    \/ LTrim
    \/ SAdd
    \/ SetRoom
    \/ SMembers
    \/ GetRoom
    \/ LRange
    \/ Reject
    \/ Corrupt

RecordSpec == RecordInit /\ [][RecordNext]_vars

----------------------------------------------------------------------------
(* The pipeline specification: one call of translateToMultipleLanguages on *)
(* any non-empty text of at most MaxLen characters, with any outcome of    *)
(* each call of the translator                                             *)

\* translateToMultipleLanguages(text) is called and runs to its first await
TranslateCall ==
    /\ tr.status = "idle"
    /\ tr' = TrRun(TrStart(tr.text))
    /\ UNCHANGED <<sessions, heap, members, roomIndex, roomMeta, history, tasks, queue, inbox,
                   now, left, seq, last, appendLog, translatorCalls, returned>>

\* the awaited call of the translator settles
TranslateReturn(outcome) ==
    /\ TrAtCall(tr)
    /\ tr' = TrResume(tr, outcome)
    /\ translatorCalls' = translatorCalls + 1
    /\ UNCHANGED <<sessions, heap, members, roomIndex, roomMeta, history, tasks, queue, inbox,
                   now, left, seq, last, appendLog, returned>>

PipelineInit ==
    /\ \E text \in Texts(1, MaxLen) : tr = [NoCall EXCEPT !.text = text]
    /\ StateInit
    /\ left = NoBudget

PipelineNext ==
    \/ TranslateCall
    \/ \E outcome \in TranslatorOutcomes : TranslateReturn(outcome)

PipelineSpec == PipelineInit /\ [][PipelineNext]_vars

----------------------------------------------------------------------------
(* Claims about the translation pipeline (PipelineSpec) *)

\* C1: when translateToMultipleLanguages returns, whatever each call of the
\* translator did, the map has an entry for each of ko, ja and en, and the
\* entry of the language detectLanguage(text) gives is the input text itself.
C1_SourceEntryVerbatim ==
    tr.status = "returned" =>
        /\ DOMAIN tr.translations = SupportedLanguage
        /\ tr.translations[detectLanguage(tr.text)] = tr.text

\* a Korean text with a jamo in it, so that the text sent to the translator
\* is not the input; both calls made, one failed and one succeeded
C1_Witness ==
    /\ tr.status = "returned"
    /\ detectLanguage(tr.text) = "ko"
    /\ tr.textForTranslation # tr.text
    /\ Len(tr.calls) = 2
    /\ tr.got["ja"].kind = "throw"
    /\ tr.got["en"].kind = "resolve"

\* C2: a target whose call of the translator failed holds the original text
\* (not the text that was sent), a target whose call succeeded holds what
\* the translator gave as a string, whatever the other call did, and the
\* function never throws: it waits only at a call and returns after the last.
C2_FailedTargetFallsBack ==
    /\ tr.status # "threw"
    /\ tr.status = "running" => TrAtCall(tr)
    /\ \A lang \in DOMAIN tr.got :
         /\ lang \in DOMAIN tr.translations
         /\ tr.got[lang].kind = "throw" => tr.translations[lang] = tr.text
         /\ tr.got[lang].kind = "resolve" =>
              tr.translations[lang] = ToStr(tr.got[lang].value)

\* every call failed, on a text that differs from what was sent, and the
\* function has returned
C2_Witness ==
    /\ tr.status = "returned"
    /\ tr.textForTranslation # tr.text
    /\ DOMAIN tr.got = {"ja", "en"}
    /\ \A lang \in DOMAIN tr.got : tr.got[lang].kind = "throw"

\* the text is made of Hangul jamo (U+1100..U+11FF, U+3130..U+318F),
\* whitespace and punctuation only, with at least one jamo
JamoSkeletonText(text) ==
    /\ \E i \in 1..Len(text) : text[i] \in JamoMapped \cup JamoUnmapped
    /\ \A i \in 1..Len(text) : text[i] \in JamoMapped \cup JamoUnmapped \cup {" ", "!"}

\* C3: on a text of jamo, whitespace and punctuation with at least one jamo
\* the function calls the translator at no point, and its ja and en entries
\* are hangulJamoToRoman(text).
C3_JamoOnlyTransliterated ==
    JamoSkeletonText(tr.text) =>
        /\ tr.calls = <<>>
        /\ translatorCalls = 0
        /\ ~TrAtCall(tr)
        /\ tr.status # "idle" =>
             /\ tr.status = "returned"
             /\ tr.translations["ja"] = hangulJamoToRoman(tr.text)
             /\ tr.translations["en"] = hangulJamoToRoman(tr.text)

\* a jamo the table romanises with two letters, then punctuation
C3_Witness ==
    /\ tr.status = "returned"
    /\ tr.text = <<"J_ng", "!">>
    /\ tr.translations["en"] = <<"n", "g", "!">>

----------------------------------------------------------------------------
(* Claims about the room store (StoreSpec) *)

\* C6: getMessages(roomId, limit) returns at most `limit` entries, for every
\* room and every limit, limit = 0 included.
C6_AtMostLimit ==
    returned.kind = "getMessages" => Len(returned.messages) <= returned.limit

\* the ids of the last n entries of a push log, oldest first
LastIds(log, n) == SubSeq(log, Len(log) - n + 1, Len(log))

\* C7: in every state, also while addMessage calls are between their push
\* and their trim, the list of every room holds at most historyLimit
\* entries, so a getMessages call returns at most historyLimit entries, all
\* among the historyLimit most recently pushed.
C7_HistoryWithinCapacity ==
    /\ \A id \in RoomIds : Len(history[id]) <= historyLimit
    /\ returned.kind = "getMessages" =>
         /\ Len(returned.messages) <= historyLimit
         /\ \A i \in 1..Len(returned.messages) :
              \E j \in 1..Min(historyLimit, Len(returned.log)) :
                 returned.messages[i].id = LastIds(returned.log, Min(historyLimit, Len(returned.log)))[j]

\* C8: a getMessages(roomId, L) with L >= 1 that is called when no other
\* call of the store is running, so after k addMessage calls on the room
\* that have all returned, returns exactly min(k, historyLimit, L) entries:
\* the messages pushed last, as they were given to addMessage, oldest first.
C8_NewestOldestFirst ==
    (returned.kind = "getMessages" /\ returned.sequential /\ returned.limit >= 1) =>
        /\ Len(returned.messages) =
             Min(Len(returned.log), Min(historyLimit, returned.limit))
        /\ [i \in 1..Len(returned.messages) |-> returned.messages[i].id] =
             LastIds(returned.log, Len(returned.messages))
        /\ \A i \in 1..Len(returned.messages) :
             returned.messages[i].roomId = returned.roomId

\* more messages pushed than the capacity, and a limit above the capacity
C8_Witness ==
    /\ returned.kind = "getMessages"
    /\ returned.sequential
    /\ Len(returned.log) > historyLimit
    /\ returned.limit > historyLimit
    /\ Len(returned.messages) = historyLimit

----------------------------------------------------------------------------
(* Claims about the gateway *)

\* the chat:send event with this body from connection c is one the claim C4
\* speaks of: the text is no string or is empty when trimmed, or the session
\* of c holds no room
MustBeDropped(c, body) ==
    \/ body.type # "string"
    \/ \A i \in 1..Len(body.s) : body.s[i] = " "
    \/ (c \in DOMAIN heap /\ heap[c].roomId = NoRoom)

\* C4 (Spec): a step in which such a chat:send arrives starts no handler that
\* waits for the translator or the store, calls the translator at no point,
\* leaves every history and every session as it is, and emits nothing to
\* anyone, an error event included.
C4_DroppedSendHasNoEffect ==
    [][(last'.kind = "chat:send" /\ left'.sends # left.sends
          /\ MustBeDropped(last'.conn, last'.body))
       => UNCHANGED <<tasks, queue, translatorCalls, history, appendLog, inbox, seq,
                      sessions, heap, members>>]_vars

\* a chat:send with a text has just arrived from a connection whose session
\* holds no room, while the other connection is in a room
C4_Witness ==
    /\ last.kind = "chat:send"
    /\ last.body = Str(<<"J_k">>)
    /\ heap[last.conn].roomId = NoRoom
    /\ \E c \in Connected : heap[c].roomId # NoRoom

\* the event that a step delivers to connection c
Delivered(c) == inbox'[c][Len(inbox'[c])]

\* C5 (ChatSpec): in every state each connected socket is in the rooms its
\* session names and in no other: none while roomId is null, else exactly
\* roomId. A chat:message that is emitted to a room reaches a connection
\* only while that room is the one its session holds, so after a join of X
\* and then of Y none that is emitted to X.
C5_MemberOfSessionRoomOnly ==
    /\ [](\A c \in Connected :
            /\ c \in sessions
            /\ members[c] = IF heap[c].roomId = NoRoom THEN {} ELSE {heap[c].roomId})
    /\ [][\A c \in Conns :
            (Len(inbox'[c]) > Len(inbox[c]) /\ Delivered(c).ev = "chat:message")
              => (c \in sessions /\ heap[c].roomId = Delivered(c).to)]_vars

\* connection c has joined X and then Y, another connection is in X, and
\* the reply that makes a handler emit a chat:message to X is the next one
C5_Witness ==
    \E c \in Connected, X \in RoomIds :
        /\ heap[c].roomId # X
        /\ heap[c].roomId # NoRoom
        /\ \E i \in 1..Len(inbox[c]) :
             inbox[c][i].ev = "room:join:result" /\ inbox[c][i].roomId = X
        /\ InRoom(X) # {}
        /\ AtHead("lTrim")
        /\ EmitRoom(Head(queue)) = X

\* where the message with this id is in a list of stored messages, 0 if nowhere
StoredAt(list, id) ==
    IF \E k \in 1..Len(list) : Parse(list[k]).id = id
    THEN CHOOSE k \in 1..Len(list) : Parse(list[k]).id = id
    ELSE 0

PushedAt(log, id) == CHOOSE k \in 1..Len(log) : log[k] = id

\* C9 (ChatSpec): when a connection has been sent the chat:message of two
\* messages of one room, the one it was sent first was pushed to the list of
\* the room first, and as long as the list holds both it is the farther
\* from the head.
C9_DeliveryInAppendOrder ==
    \A c \in Conns : \A i, j \in 1..Len(inbox[c]) :
        (/\ i < j
         /\ inbox[c][i].ev = "chat:message"
         /\ inbox[c][j].ev = "chat:message"
         /\ inbox[c][i].message.roomId = inbox[c][j].message.roomId)
        => LET R == inbox[c][i].message.roomId
               a == inbox[c][i].message.id
               b == inbox[c][j].message.id
           IN /\ \E k \in 1..Len(appendLog[R]) : appendLog[R][k] = a
              /\ \E k \in 1..Len(appendLog[R]) : appendLog[R][k] = b
              /\ PushedAt(appendLog[R], a) < PushedAt(appendLog[R], b)
              /\ (StoredAt(history[R], a) # 0 /\ StoredAt(history[R], b) # 0)
                   => StoredAt(history[R], a) > StoredAt(history[R], b)

\* two connections are in one room and each has been sent the messages
\* that both have sent, one of which went through the translator
C9_Witness ==
    \E c, d \in Conns :
        /\ c # d
        /\ Len(inbox[c]) >= 2
        /\ inbox[c][Len(inbox[c])].ev = "chat:message"
        /\ inbox[c][Len(inbox[c]) - 1].ev = "chat:message"
        /\ inbox[c][Len(inbox[c])].message.from.userId = UserIdOf(c)
        /\ inbox[c][Len(inbox[c]) - 1].message.from.userId = UserIdOf(d)
        /\ inbox[c][Len(inbox[c])].message.roomId = inbox[c][Len(inbox[c]) - 1].message.roomId
        /\ inbox[d][Len(inbox[d])] = inbox[c][Len(inbox[c])]
        /\ translatorCalls > 0

\* C10 (ChatSpec): of two chat:send events of one connection for one room
\* the earlier one is pushed to the history first and its chat:message is
\* emitted first (message ids count the chat:send events in arrival order).
C10_SameConnectionInOrder ==
    /\ \A R \in RoomIds : \A i, j \in 1..Len(appendLog[R]) :
         (i < j /\ \E m, n \in 1..Len(history[R]) :
                     /\ Parse(history[R][m]).id = appendLog[R][i]
                     /\ Parse(history[R][n]).id = appendLog[R][j]
                     /\ Parse(history[R][m]).from = Parse(history[R][n]).from)
         => appendLog[R][i] < appendLog[R][j]
    /\ \A c \in Conns : \A i, j \in 1..Len(inbox[c]) :
         (/\ i < j
          /\ inbox[c][i].ev = "chat:message"
          /\ inbox[c][j].ev = "chat:message"
          /\ inbox[c][i].message.roomId = inbox[c][j].message.roomId
          /\ inbox[c][i].message.from = inbox[c][j].message.from)
         => inbox[c][i].message.id < inbox[c][j].message.id

\* C11 (ChatSpec): every chat:message that has been sent to a connection was
\* emitted to the room that its roomId field names, and that room is the one
\* to whose list the message was pushed.
C11_EmitRoomIsAppendRoom ==
    \A c \in Conns : \A i \in 1..Len(inbox[c]) :
        inbox[c][i].ev = "chat:message" =>
            /\ inbox[c][i].to = inbox[c][i].message.roomId
            /\ \E k \in 1..Len(appendLog[inbox[c][i].to]) :
                 appendLog[inbox[c][i].to][k] = inbox[c][i].message.id

\* the events that carry a result of listRooms
IsListing(ev) == ev.ev \in {"room:list:update", "room:list:result"}

\* C12 (Spec): the id that a room:create hands to createRoom is the id of no
\* room of the registry and of no other room:create that is under way.
C12_FreshRoomId ==
    \A i \in 1..Len(queue) :
        (queue[i].kind = "room:create" /\ queue[i].pc = "sAdd") =>
            /\ queue[i].room.id \notin roomIndex
            /\ \A j \in 1..Len(queue) :
                 (j # i /\ queue[j].kind = "room:create") => queue[j].room.id # queue[i].room.id

\* C13 (Spec): a room that a listing sent to a connection holds is held,
\* with the same id, name, createdAt and creator, by every listing sent to
\* that connection later.
C13_RoomsNeverChange ==
    \A c \in Conns : \A i, j \in 1..Len(inbox[c]) :
        (i < j /\ IsListing(inbox[c][i]) /\ IsListing(inbox[c][j])) =>
            \A m \in 1..Len(inbox[c][i].rooms) :
                \E n \in 1..Len(inbox[c][j].rooms) :
                    inbox[c][j].rooms[n] = inbox[c][i].rooms[m]

\* C14 (Spec): the rooms of every listing sent to a connection are in
\* ascending order of createdAt.
C14_ListingSorted ==
    \A c \in Conns : \A i \in 1..Len(inbox[c]) :
        IsListing(inbox[c][i]) =>
            \A m, n \in 1..Len(inbox[c][i].rooms) :
                m < n => inbox[c][i].rooms[m].createdAt <= inbox[c][i].rooms[n].createdAt

\* a listing of two rooms that were created at different times
C14_Witness ==
    \E c \in Conns : \E i \in 1..Len(inbox[c]) :
        /\ IsListing(inbox[c][i])
        /\ Len(inbox[c][i].rooms) = 2
        /\ inbox[c][i].rooms[1].createdAt < inbox[c][i].rooms[2].createdAt

\* the step is the reply to the oldest command, which is at pc
ReplyStep(pc) == AtHead(pc) /\ queue' # queue /\ Len(queue') <= Len(queue)

\* the handler at the head of the queue is an onRoomCreate, and the reply
\* it receives in this step is the last one of its listRooms
CreateListingStep ==
    /\ ReplyStep("sMembers") \/ ReplyStep("get")
    /\ Head(queue).kind = "room:create"
    /\ Len(queue') < Len(queue)

\* C15 (Spec): a room:create without a session or without a name starts
\* nothing and emits nothing.  The reply to the set of createRoom sends
\* room:create:result to the caller alone.  When the listRooms of an
\* onRoomCreate returns, every connected socket is sent a room:list:update
\* whose listing holds the room that this handler created, and the caller has
\* been sent the room:create:result of that room before.
C15_CreateAnnounced ==
    [][/\ (last'.kind = "room:create" /\ left'.creates # left.creates
             /\ (last'.conn \notin sessions \/ StringField(last'.body) = <<>>))
          => UNCHANGED <<queue, inbox, roomIndex, roomMeta, sessions, heap, members>>
       /\ ReplyStep("set")
          => /\ \A c \in Conns \ {Head(queue).conn} : inbox'[c] = inbox[c]
             /\ Head(queue).conn \in Connected
                  => /\ Len(inbox'[Head(queue).conn]) = Len(inbox[Head(queue).conn]) + 1
                     /\ Delivered(Head(queue).conn) =
                          [ev |-> "room:create:result", room |-> Head(queue).room]
       /\ CreateListingStep
          => /\ \A c \in Connected :
                  /\ Len(inbox'[c]) = Len(inbox[c]) + 1
                  /\ Delivered(c).ev = "room:list:update"
                  /\ \E n \in 1..Len(Delivered(c).rooms) :
                       Delivered(c).rooms[n] = Head(queue).room
             /\ Head(queue).conn \in Connected
                  => \E i \in 1..Len(inbox[Head(queue).conn]) :
                       inbox[Head(queue).conn][i] =
                          [ev |-> "room:create:result", room |-> Head(queue).room]
      ]_vars

C17_GoneSocketIgnored ==
    [][/\ last'.kind = "disconnect"
          => /\ last'.conn \notin sessions'
             /\ last'.conn \notin sessions
                  => UNCHANGED <<tr, sessions, heap, members, roomIndex, roomMeta, history,
                                 tasks, queue, inbox, now, left, seq, appendLog,
                                 translatorCalls, returned>>
       /\ (last'.kind \in {"room:create", "room:join", "chat:send"}
             /\ left'.events # left.events /\ last'.conn \notin sessions)
          => UNCHANGED <<sessions, heap, members, roomIndex, roomMeta, history, tasks, queue,
                         inbox, now, seq, appendLog, translatorCalls>>
      ]_vars

\* a chat:send with a text has just been handled for a socket that joined a
\* room and then disconnected
C17_Witness ==
    /\ last.kind = "chat:send"
    /\ StringField(last.body) # <<>>
    /\ last.conn \notin sessions
    /\ last.conn \notin Connected
    /\ heap[last.conn].roomId # NoRoom

\* C18 (Spec): no step takes the roomId of a session from a room to null
\* while the session exists.
C18_NoWayBackToNoRoom ==
    [][\A c \in Conns :
          (c \in sessions /\ c \in sessions' /\ heap[c].roomId # NoRoom)
             => heap'[c].roomId # NoRoom]_vars

\* a room:join without a room id has just been handled for a session that
\* holds a room
C18_Witness ==
    /\ last.kind = "room:join"
    /\ StringField(last.body) = <<>>
    /\ last.conn \in sessions
    /\ heap[last.conn].roomId # NoRoom

----------------------------------------------------------------------------
(* Claims about the messages (FaultSpec) *)

\* the map has an entry for each of ko, ja and en
CompleteMap(translations) == DOMAIN translations = SupportedLanguage

\* C19: every message in a list of the store and every message of a
\* chat:message sent to a connection has a translations map with an entry
\* for each of ko, ja and en and no other, none of them the empty string.
C19_TranslationsNonEmpty ==
    /\ \A id \in RoomIds : \A k \in 1..Len(history[id]) :
         /\ CompleteMap(Parse(history[id][k]).translations)
         /\ \A lang \in SupportedLanguage : Parse(history[id][k]).translations[lang] # <<>>
    /\ \A c \in Conns : \A i \in 1..Len(inbox[c]) :
         inbox[c][i].ev = "chat:message" =>
            /\ CompleteMap(inbox[c][i].message.translations)
            /\ \A lang \in SupportedLanguage : inbox[c][i].message.translations[lang] # <<>>

\* C20: a step sends a chat:message to a connection only when it is the
\* reply, not a rejection, to the lTrim of the addMessage of that message:
\* the map of the message is complete, the message has been pushed to the
\* list before, and the list is trimmed by this step.  A rejection ends the
\* handler that awaited the command.
C20_EmitAfterAppend ==
    [][/\ \A c \in Conns :
            (Len(inbox'[c]) > Len(inbox[c]) /\ Delivered(c).ev = "chat:message")
              => /\ ReplyStep("lTrim")
                 /\ left'.faults = left.faults
                 /\ Head(queue).kind = "chat:send"
                 /\ Delivered(c).message = Head(queue).message
                 /\ CompleteMap(Delivered(c).message.translations)
                 /\ \E k \in 1..Len(appendLog[Head(queue).key]) :
                      appendLog[Head(queue).key][k] = Delivered(c).message.id
                 /\ history'[Head(queue).key] = TrimHistory(history[Head(queue).key])
       /\ left'.faults < left.faults
            => /\ queue' = Tail(queue)
               /\ tasks' = tasks
      ]_vars

\* a command of the addMessage of the first message has been rejected, so
\* that its handler is gone and nobody has been sent the message, and the
\* second message has been pushed, trimmed and emitted
C20_Witness ==
    /\ left.faults < MaxFaults
    /\ queue = <<>>
    /\ tasks = {}
    /\ seq = 2
    /\ translatorCalls > 0
    /\ \E c \in Conns : \E i \in 1..Len(inbox[c]) :
         /\ inbox[c][i].ev = "chat:message"
         /\ inbox[c][i].message.id = 2
    /\ \A c \in Conns : \A i \in 1..Len(inbox[c]) :
         inbox[c][i].ev = "chat:message" => inbox[c][i].message.id # 1

----------------------------------------------------------------------------
(* Claims about the records of the store (RecordSpec) *)

RoomFields == {"id", "name", "createdAt", "createdByUserId", "createdByNickname"}

\* the record of room id is in the store and is JSON text
Readable(id) == id \in DOMAIN roomMeta /\ Parses(roomMeta[id])

\* the rooms that the listRooms of the handler at the head has read when
\* the get of this step is answered
RoomsRead ==
    IF Readable(Head(Head(queue).ids))
    THEN Append(Head(queue).rooms, Parse(roomMeta[Head(Head(queue).ids)]))
    ELSE Head(queue).rooms

\* the two sequences hold the same records, each as often
SameRecords(a, b) ==
    /\ Len(a) = Len(b)
    /\ \A i \in 1..Len(a) :
         Cardinality({k \in 1..Len(a) : a[k] = a[i]})
           = Cardinality({k \in 1..Len(b) : b[k] = a[i]})

\* C21 (RecordSpec): every room of every listing sent to a connection is a
\* whole room record.  When a get of listRooms is answered and not rejected,
\* a record that is missing or no JSON text is left out, every other record
\* is kept with the records read before, and the loop goes on: to the next
\* id, or to the listing, which then holds exactly the records kept.  When the
\* lRange of a room:join is answered, the messages sent are the entries of
\* the range that are JSON text, all of them, oldest first.
C21_BadRecordsSkipped ==
    /\ [](\A c \in Conns : \A i \in 1..Len(inbox[c]) :
            IsListing(inbox[c][i]) =>
               \A n \in 1..Len(inbox[c][i].rooms) :
                  DOMAIN inbox[c][i].rooms[n] = RoomFields)
    /\ [][/\ (ReplyStep("get") /\ left'.faults = left.faults)
             => IF Len(Head(queue).ids) > 1
                THEN /\ Len(queue') = Len(queue)
                     /\ queue'[Len(queue')].pc = "get"
                     /\ queue'[Len(queue')].ids = Tail(Head(queue).ids)
                     /\ queue'[Len(queue')].rooms = RoomsRead
                ELSE IF Head(queue).kind = "room:join"
                THEN /\ Len(queue') = Len(queue)
                     /\ queue'[Len(queue')].pc = "lRange"
                ELSE Head(queue).conn \in Connected
                       => /\ Len(inbox'[Head(queue).conn]) = Len(inbox[Head(queue).conn]) + 1
                          /\ IsListing(Delivered(Head(queue).conn))
                          /\ SameRecords(Delivered(Head(queue).conn).rooms, RoomsRead)
          /\ (ReplyStep("lRange") /\ left'.faults = left.faults
                /\ Head(queue).kind = "room:join" /\ Head(queue).conn \in Connected)
             => LET range == LRangeOp(history[Head(queue).roomId], 0, DefaultLimit - 1)
                    good == {k \in 1..Len(range) : Parses(range[k])}
                    sent == Delivered(Head(queue).conn).messages
                IN /\ Len(sent) = Cardinality(good)
                   /\ \A k \in good : \E i \in 1..Len(sent) : sent[i] = Parse(range[k])
                   /\ \A k, l \in good : k < l =>
                        \E i, j \in 1..Len(sent) :
                           i > j /\ sent[i] = Parse(range[k]) /\ sent[j] = Parse(range[l])
         ]_vars

\* the index holds the ids of two rooms, the record of one is missing or
\* is no JSON text, and the listing sent last holds the other room alone
C21_Witness ==
    \E c \in Connected :
        /\ Cardinality(roomIndex) = 2
        /\ \E id \in roomIndex : ~Readable(id)
        /\ Len(inbox[c]) > 0
        /\ IsListing(inbox[c][Len(inbox[c])])
        /\ Len(inbox[c][Len(inbox[c])].rooms) = 1
        /\ Readable(inbox[c][Len(inbox[c])].rooms[1].id)

----------------------------------------------------------------------------
(* Claims about what the handlers leave alone (Spec) *)

\* this.sessions: the session object of every client id that has one
SessionMap == [c \in sessions |-> heap[c]]

\* the session map after the step
SessionMapAfter == [c \in sessions' |-> heap'[c]]

\* C22 (Spec): a step changes the session map only when it is the arrival
\* of a connect, which adds the session of the caller with roomId null, of a
\* disconnect, which removes the session of the caller, or of a room:join of
\* a caller with a session and a room id, which sets the roomId of the caller;
\* every other session is as before.  So the arrival of a ping, room:list,
\* room:create or chat:send and every continuation of a handler leave the
\* map as it is.  The arrival of a ping or room:list and the continuations
\* of onRoomList leave the registry and the lists of messages as they are.
C22_SessionFrame ==
    [][/\ SessionMapAfter # SessionMap
          => /\ last'.kind \in {"connect", "disconnect", "room:join"}
             /\ \A d \in Conns \ {last'.conn} :
                  /\ d \in sessions' <=> d \in sessions
                  /\ d \in sessions => heap'[d] = heap[d]
             /\ last'.kind = "connect"
                  => /\ last'.conn \notin sessions
                     /\ sessions' = sessions \cup {last'.conn}
                     /\ heap'[last'.conn] = [userId |-> UserIdOf(last'.conn),
                                             nickname |-> NicknameOf(last'.conn),
                                             roomId |-> NoRoom]
             /\ last'.kind = "disconnect" => sessions' = sessions \ {last'.conn}
             /\ last'.kind = "room:join"
                  => /\ sessions' = sessions
                     /\ StringField(last'.body) # <<>>
                     /\ heap'[last'.conn] =
                          [heap[last'.conn] EXCEPT !.roomId = StringField(last'.body)]
       /\ last'.kind \in {"ping", "room:list", "room:create", "chat:send", "none"}
          => SessionMapAfter = SessionMap
       /\ last'.kind \in {"ping", "room:list"}
          => UNCHANGED <<roomIndex, roomMeta, history>>
       /\ (queue # <<>> /\ Head(queue).kind = "room:list" /\ queue' # queue
             /\ Len(queue') <= Len(queue))
          => UNCHANGED <<roomIndex, roomMeta, history>>
      ]_vars

\* a room:create with a name has just arrived from a connection with a
\* session while another connection holds a room
C22_Witness ==
    /\ last.kind = "room:create"
    /\ StringField(last.body) # <<>>
    /\ last.conn \in sessions
    /\ \E d \in sessions \ {last.conn} : heap[d].roomId # NoRoom

----------------------------------------------------------------------------
(* Claims about a connection that joins a room while messages are sent    *)
(* (ChatSpec)                                                              *)

\* the index in the inbox of c of the last room:join:result sent to c, or 0
LastJoinResult(c) ==
    IF \E i \in 1..Len(inbox[c]) : inbox[c][i].ev = "room:join:result"
    THEN CHOOSE i \in 1..Len(inbox[c]) :
            /\ inbox[c][i].ev = "room:join:result"
            /\ \A j \in (i + 1)..Len(inbox[c]) : inbox[c][j].ev # "room:join:result"
    ELSE 0

\* the number of messages that had been pushed to the list of the room when
\* the lRange behind the room:join:result `res` was answered: the newest
\* message of the result is the last one pushed until then
PushedBefore(res) ==
    IF res.messages = <<>> THEN 0
    ELSE PushedAt(appendLog[res.roomId], res.messages[Len(res.messages)].id)

\* the room:join of c for room R has run to its end, no later room:join of c
\* has arrived, and c is connected and in R
SettledIn(c, R) ==
    /\ c \in Connected
    /\ R \in members[c]
    /\ LastJoinResult(c) # 0
    /\ inbox[c][LastJoinResult(c)].roomId = R
    /\ \A i \in 1..Len(queue) : ~(queue[i].kind = "room:join" /\ queue[i].conn = c)

\* the onChatSend that pushed the message with this id has run to its end
SendDone(id) ==
    /\ \A i \in 1..Len(queue) : ~(queue[i].kind = "chat:send" /\ queue[i].message.id = id)
    /\ \A t \in tasks : t.id # id

\* C23 (ChatSpec): when the last room:join of a connection was for room R
\* and has run to its end, and the connection is still in R, then every
\* message that was pushed to the list of R after the lRange of that
\* room:join (and so after the room:join made the connection a member of R)
\* and whose onChatSend has run to its end has been sent to the connection
\* as a chat:message.  (A message pushed before the lRange is in the
\* room:join:result, the list being no longer than the 50 entries read.)
C23_NoMessageMissed ==
    \A c \in Conns, R \in RoomIds :
        SettledIn(c, R) =>
            \A k \in 1..Len(appendLog[R]) :
                (k > PushedBefore(inbox[c][LastJoinResult(c)]) /\ SendDone(appendLog[R][k]))
                => \E j \in 1..Len(inbox[c]) :
                     /\ inbox[c][j].ev = "chat:message"
                     /\ inbox[c][j].message.id = appendLog[R][k]

============================================================================
